---------------------------- MODULE Spec2Model ----------------------------
(***************************************************************************)
(* Model of gtsam's SO4.cpp (Hat, Vee, Expmap, Logmap, ChartAtOrigin,      *)
(* vec, topLeft, stiefel) and of the Levenberg-Marquardt loop driven by    *)
(* timeSFMBAL.cpp.                                                         *)
(*                                                                         *)
(* Numbers.  A double is modelled by an exact rational.  Matrices and      *)
(* vectors are indexed from 0 as in the source: a Matrix4 is a function    *)
(* [0..3 -> [0..3 -> Int]], a Vector6 a function [0..5 -> Int].  A matrix  *)
(* with fractional entries is a record [num |-> integer matrix, den |-> d] *)
(* standing for num/d; den = 0 stands for a matrix holding a non-finite    *)
(* double (the IEEE result of a division by zero: inf or NaN).             *)
(***************************************************************************)
EXTENDS Integers, Sequences, FiniteSets, TLC

\* Bounds of the model: the largest |coordinate| of a tangent vector and the
\* largest sum of |coordinates|.
MaxCoord == 2
MaxNorm1 == 3

Abs(x) == IF x < 0 THEN -x ELSE x

RECURSIVE GCD(_, _)
GCD(x, y) == IF y = 0 THEN Abs(x) ELSE GCD(y, x % Abs(y))

Idx4 == 0..3
Idx6 == 0..5

\* ------------------------------------------------------------------------
\* Eigen fixed-size matrices (integer entries)

Z_4x4 == [i \in Idx4 |-> [j \in Idx4 |-> 0]]

I_4x4 == [i \in Idx4 |-> [j \in Idx4 |-> IF i = j THEN 1 ELSE 0]]

Transpose(A) == [j \in DOMAIN A[0] |-> [i \in DOMAIN A |-> A[i][j]]]

MatAdd(A, B) == [i \in DOMAIN A |-> [j \in DOMAIN A[i] |-> A[i][j] + B[i][j]]]

MatSub(A, B) == [i \in DOMAIN A |-> [j \in DOMAIN A[i] |-> A[i][j] - B[i][j]]]

Scale(c, A) == [i \in DOMAIN A |-> [j \in DOMAIN A[i] |-> c * A[i][j]]]

\* A * B where A has four columns and B four rows
MatMul(A, B) ==
  [i \in DOMAIN A |-> [j \in DOMAIN B[0] |->
      A[i][0] * B[0][j] + A[i][1] * B[1][j] + A[i][2] * B[2][j] + A[i][3] * B[3][j]]]

\* column j of A, as a function of the row index
Col(A, j) == [i \in DOMAIN A |-> A[i][j]]

\* Vector6::Unit(k)
Unit6(k) == [i \in Idx6 |-> IF i = k THEN 1 ELSE 0]

\* ------------------------------------------------------------------------
\* SO4::Hat and SO4::Vee

Hat(xi) ==
  LET Y == [Z_4x4 EXCEPT ![0][1] = -xi[2],
                         ![0][2] = xi[1],
                         ![1][2] = -xi[0],
                         ![0][3] = -xi[3],
                         ![1][3] = -xi[4],
                         ![2][3] = -xi[5]]
  IN  MatSub(Y, Transpose(Y))

\* Vee with the sign of xi(1) slipped
Vee_SignSlip(X) ==
  [k \in Idx6 |->
     CASE k = 2 -> -X[0][1]
       [] k = 1 -> -X[0][2]
       [] k = 0 -> -X[1][2]
       [] k = 3 -> -X[0][3]
       [] k = 4 -> -X[1][3]
       [] k = 5 -> -X[2][3]]

Vee(X) ==
  [k \in Idx6 |->
     CASE k = 2 -> -X[0][1]
       [] k = 1 -> X[0][2]
       [] k = 0 -> -X[1][2]
       [] k = 3 -> -X[0][3]
       [] k = 4 -> -X[1][3]
       [] k = 5 -> -X[2][3]]

\* ------------------------------------------------------------------------
\* Fractions: num/den with den > 0 in lowest terms; den = 0 is non-finite

RECURSIVE VecGcd(_, _)
VecGcd(v, n) == IF n = 0 THEN 0 ELSE GCD(v[n - 1], VecGcd(v, n - 1))

RECURSIVE MatGcd(_, _, _)
MatGcd(A, rows, cols) ==
  IF rows = 0 THEN 0 ELSE GCD(VecGcd(A[rows - 1], cols), MatGcd(A, rows - 1, cols))

NonFinite4 == [num |-> Z_4x4, den |-> 0]

\* the 4x4 matrix N/d in lowest terms
RMat(N, d) ==
  IF d = 0 THEN NonFinite4
  ELSE LET g == GCD(MatGcd(N, 4, 4), d)
           s == IF d < 0 THEN -1 ELSE 1
       IN  [num |-> [i \in Idx4 |-> [j \in Idx4 |-> (s * N[i][j]) \div g]],
            den |-> Abs(d) \div g]

\* the 6-vector v/d in lowest terms
RVec(v, d) ==
  IF d = 0 THEN [num |-> [k \in Idx6 |-> 0], den |-> 0]
  ELSE LET g == GCD(VecGcd(v, 6), d)
           s == IF d < 0 THEN -1 ELSE 1
       IN  [num |-> [k \in Idx6 |-> (s * v[k]) \div g], den |-> Abs(d) \div g]

RAdd(R, S) == RMat(MatAdd(Scale(S.den, R.num), Scale(R.den, S.num)), R.den * S.den)

RSub(R, S) == RMat(MatSub(Scale(S.den, R.num), Scale(R.den, S.num)), R.den * S.den)

RMul(R, S) == RMat(MatMul(R.num, S.num), R.den * S.den)

RI_4x4 == [num |-> I_4x4, den |-> 1]

\* Eigen's fixed-size 4x4 inverse(): cofactors over the determinant
Skip(i, k) == IF k < i THEN k ELSE k + 1

Minor(A, i, j) ==
  LET S == [r \in 0..2 |-> [c \in 0..2 |-> A[Skip(i, r)][Skip(j, c)]]]
  IN  S[0][0] * (S[1][1] * S[2][2] - S[1][2] * S[2][1])
      - S[0][1] * (S[1][0] * S[2][2] - S[1][2] * S[2][0])
      + S[0][2] * (S[1][0] * S[2][1] - S[1][1] * S[2][0])

Cofactor(A, i, j) == IF (i + j) % 2 = 0 THEN Minor(A, i, j) ELSE -Minor(A, i, j)

Det4(A) ==
  A[0][0] * Cofactor(A, 0, 0) + A[0][1] * Cofactor(A, 0, 1)
  + A[0][2] * Cofactor(A, 0, 2) + A[0][3] * Cofactor(A, 0, 3)

Adjugate(A) == [i \in Idx4 |-> [j \in Idx4 |-> Cofactor(A, j, i)]]

\* (N/d)^-1 = d * adj(N) / det(N); a singular matrix divides by zero
RInverse(R) ==
  IF R.den = 0 THEN NonFinite4
  ELSE RMat(Scale(R.den, Adjugate(R.num)), Det4(R.num))

\* Hat of the fractional vector v.num / v.den (Hat is linear)
RHat(v) == RMat(Hat(v.num), v.den)

\* Vee of the fractional matrix R
RVee(R) == RVec(Vee(R.num), R.den)

\* ------------------------------------------------------------------------
\* What a call hands back: the message of the std::runtime_error it threw
\* ("" when it returned) and the value it returned (kind "none" when it threw)

ZeroM == [num |-> Z_4x4, den |-> 1]

ZeroV == [num |-> [k \in Idx6 |-> 0], den |-> 1]

Throw(msg) == [thrown |-> msg, kind |-> "none", M |-> ZeroM, v |-> ZeroV]

ReturnMatrix4(R) == [thrown |-> "", kind |-> "Matrix4", M |-> R, v |-> ZeroV]

ReturnSO4(R) == [thrown |-> "", kind |-> "SO4", M |-> R, v |-> ZeroV]

ReturnVector6(w) == [thrown |-> "", kind |-> "Vector6", M |-> ZeroM, v |-> w]

NoCall == [thrown |-> "", kind |-> "none", M |-> ZeroM, v |-> ZeroV]

\* ------------------------------------------------------------------------
\* SO4::Logmap and SO4::ChartAtOrigin; H is whether a Jacobian is requested

\* Logmap that throws only for a Jacobian and otherwise returns zero
Logmap_ReturnsZero(Q, H) ==
  IF H THEN Throw("SO4::Logmap Jacobian")
  ELSE ReturnVector6(ZeroV)

Logmap(Q, H) ==
  IF H THEN Throw("SO4::Logmap Jacobian")
  ELSE Throw("SO4::Logmap")

Retract(xi, H) ==
  IF H THEN Throw("SO4::ChartAtOrigin::Retract Jacobian")
  ELSE LET X == RHat(RVec(xi, 2))
       IN  ReturnSO4(RMul(RAdd(RI_4x4, X), RInverse(RSub(RI_4x4, X))))

\* Local without the factor -2
Local_Unscaled(Q, H) ==
  IF H THEN Throw("SO4::ChartAtOrigin::Retract Jacobian")
  ELSE ReturnVector6(RVee(RMul(RSub(RI_4x4, Q), RInverse(RAdd(RI_4x4, Q)))))

Local(Q, H) ==
  IF H THEN Throw("SO4::ChartAtOrigin::Retract Jacobian")
  ELSE LET X == RMul(RSub(RI_4x4, Q), RInverse(RAdd(RI_4x4, Q)))
           w == RVee(X)
       IN  ReturnVector6(RVec([k \in Idx6 |-> -2 * w.num[k]], w.den))

\* Q * Q^T = I
Orthogonal(R) ==
  /\ R.den # 0
  /\ MatMul(R.num, Transpose(R.num)) = Scale(R.den * R.den, I_4x4)

\* ------------------------------------------------------------------------
\* double scalars as fractions [n, d]; d = 0 is non-finite

NonFinite == [n |-> 0, d |-> 0]

Frac(n, d) ==
  IF d = 0 THEN NonFinite
  ELSE LET g == GCD(n, d)
           s == IF d < 0 THEN -1 ELSE 1
       IN  [n |-> (s * n) \div g, d |-> Abs(d) \div g]

FInt(k) == [n |-> k, d |-> 1]

FAdd(x, y) == Frac(x.n * y.d + y.n * x.d, x.d * y.d)

FSub(x, y) == Frac(x.n * y.d - y.n * x.d, x.d * y.d)

FMul(x, y) == Frac(x.n * y.n, x.d * y.d)

\* IEEE division: a zero divisor gives inf or NaN, never a trap
FDiv(x, y) == IF x.d = 0 \/ y.d = 0 THEN NonFinite ELSE Frac(x.n * y.d, x.d * y.n)

\* std::cos and std::sin.  The values of the real functions at a non-zero integer
\* are irrational; the model evaluates the rational parametrisation of the unit
\* circle at t = a/2, which keeps what Expmap's closed form relies on:
\* cos^2 + sin^2 = 1, cos even, sin odd, cos 0 = 1, sin 0 = 0.
Cos(a) == Frac(4 - a * a, 4 + a * a)

Sin(a) == Frac(4 * a, 4 + a * a)

\* c * A for a double c and an integer matrix A
FScale(c, A) == RMat(Scale(c.n, A), c.d)

\* ------------------------------------------------------------------------
\* SO4::Expmap

\* Eigen::EigenSolver<Matrix4>(X).eigenvalues() for skew-symmetric X.  The exact
\* spectrum is {+pi, -pi, +qi, -qi} with p^2 + q^2 = sum of the squared
\* upper-triangle entries and p*q = |Pfaffian(X)|.
UpperSumSq(X) ==
  X[0][1] * X[0][1] + X[0][2] * X[0][2] + X[0][3] * X[0][3]
  + X[1][2] * X[1][2] + X[1][3] * X[1][3] + X[2][3] * X[2][3]

Pfaffian(X) == X[0][1] * X[2][3] - X[0][2] * X[1][3] + X[0][3] * X[1][2]

IsSpectrum(X, p, q) ==
  /\ p >= q
  /\ p * p + q * q = UpperSumSq(X)
  /\ p * q = Abs(Pfaffian(X))

\* the eigenvalues are representable in the model (integer magnitudes)
HasIntegerSpectrum(X) ==
  \E p \in 0..UpperSumSq(X) : \E q \in 0..p : IsSpectrum(X, p, q)

EigenMagnitudes(X) ==
  CHOOSE pq \in (0..UpperSumSq(X)) \X (0..UpperSumSq(X)) : IsSpectrum(X, pq[1], pq[2])

\* A complex eigenvalue [re, im].  The imaginary part is exact; the real part
\* (exactly zero for a skew-symmetric matrix) is the solver's round-off r,
\* counted in units of Eigen's dummy precision for double (1e-12).
EigenSolver(X, r) ==
  LET pq == EigenMagnitudes(X)
  IN  [k \in Idx4 |->
         CASE k = 0 -> [re |-> r, im |-> pq[1]]
           [] k = 1 -> [re |-> r, im |-> -pq[1]]
           [] k = 2 -> [re |-> r, im |-> pq[2]]
           [] k = 3 -> [re |-> r, im |-> -pq[2]]]

Permutations4 == {p \in [Idx4 -> Idx4] : \A i, j \in Idx4 : p[i] = p[j] => i = j}

\* std::sort with comp(a, b) = abs(a.imag()) > abs(b.imag()): every arrangement
\* in which no later element compares before an earlier one.  The order of
\* elements of equal |imag| is unspecified.
SortOutcomes(ev) ==
  {s \in {[k \in Idx4 |-> ev[p[k]]] : p \in Permutations4} :
     \A i, j \in Idx4 : i < j => ~(Abs(s[j].im) > Abs(s[i].im))}

\* Eigen's isZero(prec) with the default precision: |x| <= prec for every entry
DummyPrecision == 1

IsZero(v) == \A k \in DOMAIN v : Abs(v[k]) <= DummyPrecision

\* the check without the comparisons of the imaginary parts
WrongEigenvalues_RealPartsOnly(e) == ~IsZero([k \in Idx4 |-> e[k].re])

\* if (!e.real().isZero() || e[1].imag() != -a || e[3].imag() != -b) throw
WrongEigenvalues(e) ==
  LET a == e[0].im
      b == e[2].im
  IN  \/ ~IsZero([k \in Idx4 |-> e[k].re])
      \/ e[1].im # -a
      \/ e[3].im # -b

\* c0 * I_4x4 + c1 * X + c2 * X2 + c3 * X3
Cubic(c, X) ==
  LET X2 == MatMul(X, X)
      X3 == MatMul(X2, X)
  IN  RAdd(RAdd(FScale(c[0], I_4x4), FScale(c[1], X)),
           RAdd(FScale(c[2], X2), FScale(c[3], X3)))

\* which branch of the if / else-if chain is taken
Branch(a, b) ==
  IF a # 0 /\ b = 0 THEN "a_only"
  ELSE IF a = b /\ b # 0 THEN "equal"
  ELSE IF a # b THEN "general"
  ELSE "identity"

\* the coefficients c0..c3 of the branch taken
Coefficients(a, b) ==
  LET a2 == a * a
      a3 == a2 * a
      b2 == b * b
      b3 == b2 * b
      sin_a == Sin(a)
      cos_a == Cos(a)
      sin_b == Sin(b)
      cos_b == Cos(b)
      br == Branch(a, b)
  IN  IF br = "a_only" THEN
        [k \in Idx4 |->
           CASE k = 0 -> FInt(1)
             [] k = 1 -> FInt(1)
             [] k = 2 -> FDiv(FSub(FInt(1), cos_a), FInt(a2))
             [] k = 3 -> FDiv(FSub(FInt(a), sin_a), FInt(a3))]
      ELSE IF br = "equal" THEN
        [k \in Idx4 |->
           CASE k = 0 -> FDiv(FAdd(FMul(FInt(a), sin_a), FMul(FInt(2), cos_a)), FInt(2))
             [] k = 1 -> FDiv(FSub(FMul(FInt(3), sin_a), FMul(FInt(a), cos_a)), FInt(2 * a))
             [] k = 2 -> FDiv(sin_a, FInt(2 * a))
             [] k = 3 -> FDiv(FSub(sin_a, FMul(FInt(a), cos_a)), FInt(2 * a3))]
      ELSE IF br = "general" THEN
        [k \in Idx4 |->
           CASE k = 0 -> FDiv(FSub(FMul(FInt(b2), cos_a), FMul(FInt(a2), cos_b)),
                              FInt(b2 - a2))
             [] k = 1 -> FDiv(FSub(FMul(FInt(b3), sin_a), FMul(FInt(a3), sin_b)),
                              FInt(a * b * (b2 - a2)))
             [] k = 2 -> FDiv(FSub(cos_a, cos_b), FInt(b2 - a2))
             [] k = 3 -> FDiv(FSub(FMul(FInt(b), sin_a), FMul(FInt(a), sin_b)),
                              FInt(a * b * (b2 - a2)))]
      ELSE
        [k \in Idx4 |-> IF k = 0 THEN FInt(1) ELSE FInt(0)]


NoEigen == [k \in Idx4 |-> [re |-> 0, im |-> 0]]

NoCoef == [k \in Idx4 |-> FInt(0)]

\* The whole of SO4::Expmap(xi, H), given the array e that std::sort left.
\* Returns the outcome with the locals e, c0..c3 and the branch taken.
Expmap(xi, H, e) ==
  IF H THEN
    [ret |-> Throw("SO4::Expmap Jacobian"), e |-> NoEigen, coef |-> NoCoef,
     branch |-> "none"]
  ELSE IF WrongEigenvalues(e) THEN
    [ret |-> Throw("SO4::Expmap: wrong eigenvalues."), e |-> e, coef |-> NoCoef,
     branch |-> "none"]
  ELSE
    LET a == e[0].im
        b == e[2].im
        c == Coefficients(a, b)
    IN  [ret |-> ReturnSO4(Cubic(c, Hat(xi))), e |-> e, coef |-> c,
         branch |-> Branch(a, b)]

\* ------------------------------------------------------------------------
\* vec, topLeft and stiefel.  The element Q is a fraction Q.num / Q.den; every
\* value below is linear in Q, so it is computed on Q.num and carries Q.den.

\* static vec(Q): Eigen::Map<const Vector16>(Q.data()), column-major storage
VecOf(A) == [r \in 0..15 |-> A[r % 4][r \div 4]]

\* the generators G[k] = Hat(Vector6::Unit(k))
G == [k \in Idx6 |-> Hat(Unit6(k))]

\* the 16x6 matrix P whose columns are vec(G[0]) .. vec(G[5])
P == [r \in 0..15 |-> [k \in Idx6 |-> VecOf(G[k])[r]]]

\* P.block<4, 6>(r0, 0)
PBlock(r0) == [i \in Idx4 |-> [k \in Idx6 |-> P[r0 + i][k]]]

\* *H << A0, A1, A2, A3 with 4x6 blocks: the blocks stacked into 16x6
Stack4(A0, A1, A2, A3) ==
  [r \in 0..15 |->
     CASE r \div 4 = 0 -> A0[r % 4]
       [] r \div 4 = 1 -> A1[r % 4]
       [] r \div 4 = 2 -> A2[r % 4]
       [] r \div 4 = 3 -> A3[r % 4]]

\* *H << b00, .., b05, b10, .., b15, b20, .., b25 with n x 1 blocks: three rows
\* of six column vectors, giving a 3n x 6 matrix.  B is the tuple of the three
\* rows, each the tuple of its six blocks.
BlockRows(n, B) ==
  [r \in 0..(3 * n - 1) |-> [k \in Idx6 |-> B[(r \div n) + 1][k + 1][r % n]]]

Neg(m) == [i \in DOMAIN m |-> -m[i]]

Z_3x1 == [i \in 0..2 |-> 0]

Z_4x1 == [i \in Idx4 |-> 0]

Jacobian(n, A, d) == [rows |-> n, num |-> A, den |-> d]

\* A call of an accessor gives: value, the projection returned; H, the contents
\* of the caller's Jacobian buffer afterwards (Hin before); self, the element
\* afterwards.  wantH is whether the OptionalJacobian holds a buffer.

vec(Qm, wantHm, Hin) ==
  [value |-> [kind |-> "Vector16", num |-> VecOf(Qm.num), den |-> Qm.den],
   H |-> IF wantHm
         THEN Jacobian(16, Stack4(MatMul(Qm.num, PBlock(0)), MatMul(Qm.num, PBlock(4)),
                                  MatMul(Qm.num, PBlock(8)), MatMul(Qm.num, PBlock(12))),
                       Qm.den)
         ELSE Hin,
   self |-> Qm]

\* topLeft that fills H whether or not it was requested
topLeft_AlwaysWritesH(Qm, wantHm, Hin) ==
  LET M == [i \in 0..2 |-> [j \in 0..2 |-> Qm.num[i][j]]]
      m1 == Col(M, 0)
      m2 == Col(M, 1)
      m3 == Col(M, 2)
      q == [i \in 0..2 |-> Qm.num[i][3]]
  IN  [value |-> [kind |-> "Matrix3", num |-> M, den |-> Qm.den],
       H |-> Jacobian(9,
               BlockRows(3, <<<<Z_3x1, Neg(m3), m2, q, Z_3x1, Z_3x1>>,
                              <<m3, Z_3x1, Neg(m1), Z_3x1, q, Z_3x1>>,
                              <<Neg(m2), m1, Z_3x1, Z_3x1, Z_3x1, q>>>>),
               Qm.den),
       self |-> Qm]

topLeft(Qm, wantHm, Hin) ==
  LET M == [i \in 0..2 |-> [j \in 0..2 |-> Qm.num[i][j]]]
      m1 == Col(M, 0)
      m2 == Col(M, 1)
      m3 == Col(M, 2)
      q == [i \in 0..2 |-> Qm.num[i][3]]
  IN  [value |-> [kind |-> "Matrix3", num |-> M, den |-> Qm.den],
       H |-> IF wantHm
             THEN Jacobian(9,
                    BlockRows(3, <<<<Z_3x1, Neg(m3), m2, q, Z_3x1, Z_3x1>>,
                                   <<m3, Z_3x1, Neg(m1), Z_3x1, q, Z_3x1>>,
                                   <<Neg(m2), m1, Z_3x1, Z_3x1, Z_3x1, q>>>>),
                    Qm.den)
             ELSE Hin,
       self |-> Qm]

\* stiefel with m2 and m3 exchanged in the first block row of H
stiefel_SwappedBlocks(Qm, wantHm, Hin) ==
  LET M == [i \in Idx4 |-> [j \in 0..2 |-> Qm.num[i][j]]]
      m1 == Col(Qm.num, 0)
      m2 == Col(Qm.num, 1)
      m3 == Col(Qm.num, 2)
      q == Col(Qm.num, 3)
  IN  [value |-> [kind |-> "Matrix43", num |-> M, den |-> Qm.den],
       H |-> IF wantHm
             THEN Jacobian(12,
                    BlockRows(4, <<<<Z_4x1, Neg(m2), m3, q, Z_4x1, Z_4x1>>,
                                   <<m3, Z_4x1, Neg(m1), Z_4x1, q, Z_4x1>>,
                                   <<Neg(m2), m1, Z_4x1, Z_4x1, Z_4x1, q>>>>),
                    Qm.den)
             ELSE Hin,
       self |-> Qm]

stiefel(Qm, wantHm, Hin) ==
  LET M == [i \in Idx4 |-> [j \in 0..2 |-> Qm.num[i][j]]]
      m1 == Col(Qm.num, 0)
      m2 == Col(Qm.num, 1)
      m3 == Col(Qm.num, 2)
      q == Col(Qm.num, 3)
  IN  [value |-> [kind |-> "Matrix43", num |-> M, den |-> Qm.den],
       H |-> IF wantHm
             THEN Jacobian(12,
                    BlockRows(4, <<<<Z_4x1, Neg(m3), m2, q, Z_4x1, Z_4x1>>,
                                   <<m3, Z_4x1, Neg(m1), Z_4x1, q, Z_4x1>>,
                                   <<Neg(m2), m1, Z_4x1, Z_4x1, Z_4x1, q>>>>),
                    Qm.den)
             ELSE Hin,
       self |-> Qm]

\* ------------------------------------------------------------------------
\* The tangent vectors and round-off levels the model draws its inputs from

MaxRoundOff == 2

RoundOff == (-MaxRoundOff)..MaxRoundOff

Norm1(v) == Abs(v[0]) + Abs(v[1]) + Abs(v[2]) + Abs(v[3]) + Abs(v[4]) + Abs(v[5])

TangentVectors == {v \in [Idx6 -> (-MaxCoord)..MaxCoord] : Norm1(v) <= MaxNorm1}

\* the tangent vectors strictly inside the bound
Perturbations == {v \in TangentVectors : Norm1(v) < MaxNorm1}

\* ------------------------------------------------------------------------
\* State

VARIABLES
  xi,          \* the Vector6 the caller passes to Hat, Expmap and Retract
  wantH,       \* whether the last call was passed a Jacobian to fill
  op,          \* the function called last ("none" before the first call)
  prev,        \* the function called before that: where the argument came from
  ret,         \* what the last call handed back
  e,           \* Expmap's sorted eigenvalue array
  coef,        \* Expmap's c0..c3
  branch,      \* the branch Expmap took
  Q,           \* the SO4 element vec, topLeft and stiefel are called on
  out,         \* the projection vec, topLeft or stiefel returned
  Hbuf,        \* the caller's Jacobian buffer
  lmState,     \* Levenberg-Marquardt: state of the loop
  lambdaExp,   \* lambda = lambda0 * factor^lambdaExp
  iterations,  \* accepted steps so far
  retries,     \* rejected tries of the current step
  error        \* current total error

callVars == <<wantH, op, prev, ret>>
expVars == <<e, coef, branch>>
projVars == <<Q, out, Hbuf>>
lmVars == <<lmState, lambdaExp, iterations, retries, error>>
vars == <<xi, callVars, expVars, projVars, lmVars>>

NoOut == [kind |-> "none", num |-> <<>>, den |-> 1]

NoJacobian == [rows |-> 0, num |-> <<>>, den |-> 1]

IdleCalls ==
  /\ wantH = FALSE /\ op = "none" /\ prev = "none" /\ ret = NoCall
  /\ e = NoEigen /\ coef = NoCoef /\ branch = "none"

IdleProj == Q = RI_4x4 /\ out = NoOut /\ Hbuf = NoJacobian

IdleLM ==
  /\ lmState = "INITIAL" /\ lambdaExp = 0 /\ iterations = 0 /\ retries = 0
  /\ error = 0

\* ------------------------------------------------------------------------
\* Calls of Hat, Vee, Expmap, Logmap, Retract and Local.  The functions are
\* static and keep no state, so a run is one call on the input xi followed by
\* the calls that consume what it returned: Vee on the Matrix4 that Hat
\* returned, Logmap and Local on the SO4 that Retract or Expmap returned.

Init == xi \in TangentVectors /\ IdleCalls /\ IdleProj /\ IdleLM

Done(name, h, result) ==
  /\ op' = name
  /\ prev' = op
  /\ wantH' = h
  /\ ret' = result
  /\ UNCHANGED <<xi, projVars, lmVars>>

CallHat ==
  /\ op = "none"
  /\ Done("Hat", FALSE, ReturnMatrix4(RMat(Hat(xi), 1)))
  /\ e' = NoEigen /\ coef' = NoCoef /\ branch' = "none"

CallVee ==
  /\ op = "Hat"
  /\ Done("Vee", FALSE, ReturnVector6(RVee(ret.M)))
  /\ e' = NoEigen /\ coef' = NoCoef /\ branch' = "none"

CallExpmap(h) ==
  /\ op = "none"
  /\ h \/ HasIntegerSpectrum(Hat(xi))
  /\ \E r \in RoundOff :
       \E s \in (IF h THEN {NoEigen} ELSE SortOutcomes(EigenSolver(Hat(xi), r))) :
          LET res == Expmap(xi, h, s)
          IN  /\ Done("Expmap", h, res.ret)
              /\ e' = res.e /\ coef' = res.coef /\ branch' = res.branch

CallLogmap(h) ==
  /\ ret.kind = "SO4"
  /\ Done("Logmap", h, Logmap(ret.M, h))
  /\ e' = NoEigen /\ coef' = NoCoef /\ branch' = "none"

CallRetract(h) ==
  /\ op = "none"
  /\ Done("Retract", h, Retract(xi, h))
  /\ e' = NoEigen /\ coef' = NoCoef /\ branch' = "none"

CallLocal(h) ==
  /\ ret.kind = "SO4"
  /\ Done("Local", h, Local(ret.M, h))
  /\ e' = NoEigen /\ coef' = NoCoef /\ branch' = "none"

Next ==
  \/ CallHat
  \/ CallVee
  \/ \E h \in BOOLEAN : CallExpmap(h)
  \/ \E h \in BOOLEAN : CallLogmap(h)
  \/ \E h \in BOOLEAN : CallRetract(h)
  \/ \E h \in BOOLEAN : CallLocal(h)

Spec == Init /\ [][Next]_vars

\* ------------------------------------------------------------------------
\* Calls of vec, topLeft and stiefel on an element Q, with or without a
\* Jacobian buffer.  Q is an element Retract produces from a tangent vector
\* inside the bound.

Elements == {Retract(v, FALSE).M : v \in Perturbations}

InitProj ==
  /\ Q \in Elements
  /\ out = NoOut /\ Hbuf = NoJacobian
  /\ xi = [k \in Idx6 |-> 0] /\ IdleCalls /\ IdleLM

Accessed(name, h, res) ==
  /\ op' = name
  /\ wantH' = h
  /\ out' = res.value
  /\ Hbuf' = res.H
  /\ Q' = res.self

CallVec(h) ==
  /\ Accessed("vec", h, vec(Q, h, Hbuf))
  /\ UNCHANGED <<xi, prev, ret, expVars, lmVars>>

CallTopLeft(h) ==
  /\ Accessed("topLeft", h, topLeft(Q, h, Hbuf))
  /\ UNCHANGED <<xi, prev, ret, expVars, lmVars>>

CallStiefel(h) ==
  /\ Accessed("stiefel", h, stiefel(Q, h, Hbuf))
  /\ UNCHANGED <<xi, prev, ret, expVars, lmVars>>

NextProj ==
  \/ \E h \in BOOLEAN : CallVec(h)
  \/ \E h \in BOOLEAN : CallTopLeft(h)
  \/ \E h \in BOOLEAN : CallStiefel(h)

SpecProj == InitProj /\ [][NextProj]_vars

\* ------------------------------------------------------------------------
\* LevenbergMarquardtOptimizer::optimize(), which timeSFMBAL.cpp calls.  The
\* loop is the state machine INITIAL -> ITERATING -> {CONVERGED,
\* STOPPED_NO_PROGRESS, EXCEEDED_MAX_ITERATIONS}.  The total error is counted
\* in whole units; the error of a candidate step and whether the improvement or
\* the step is below its tolerance come from the factor graph and the linear
\* solver, which the model leaves open.

\* Bounds: the largest total error, the iteration cap and the retry cap
MaxError == 3
MaxIterations == 3
MaxRetries == 3

Terminal == {"CONVERGED", "STOPPED_NO_PROGRESS", "EXCEEDED_MAX_ITERATIONS"}

InitLM ==
  /\ lmState = "INITIAL" /\ lambdaExp = 0 /\ iterations = 0 /\ retries = 0
  /\ error = 0
  /\ xi = [k \in Idx6 |-> 0] /\ IdleCalls /\ IdleProj

\* INITIAL: compute the total error of the initial Values
LMStart(err) ==
  /\ lmState = "INITIAL"
  /\ error' = err
  /\ lmState' = "ITERATING"
  /\ UNCHANGED <<lambdaExp, iterations, retries>>
  /\ UNCHANGED <<xi, callVars, expVars, projVars>>

\* the error decreased: take the step, decrease lambda, count the iteration
LMAccept(newError, belowTolerance) ==
  /\ lmState = "ITERATING"
  /\ newError < error
  /\ error' = newError
  /\ lambdaExp' = lambdaExp - 1
  /\ iterations' = iterations + 1
  /\ retries' = 0
  /\ lmState' = IF belowTolerance THEN "CONVERGED"
                ELSE IF iterations + 1 >= MaxIterations THEN "EXCEEDED_MAX_ITERATIONS"
                ELSE "ITERATING"
  /\ UNCHANGED <<xi, callVars, expVars, projVars>>

\* a rejected try that moves neither lambda nor the retry count
LMReject_KeepsLambda(newError) ==
  /\ lmState = "ITERATING"
  /\ newError >= error
  /\ UNCHANGED <<lmState, lambdaExp, retries, error, iterations>>
  /\ UNCHANGED <<xi, callVars, expVars, projVars>>

\* the error did not decrease, or the solver failed: keep the Values, increase
\* lambda and retry, up to the retry cap
LMReject(newError) ==
  /\ lmState = "ITERATING"
  /\ newError >= error
  /\ lambdaExp' = lambdaExp + 1
  /\ retries' = retries + 1
  /\ lmState' = IF retries + 1 >= MaxRetries THEN "STOPPED_NO_PROGRESS" ELSE "ITERATING"
  /\ UNCHANGED <<error, iterations>>
  /\ UNCHANGED <<xi, callVars, expVars, projVars>>

NextLM ==
  \/ \E err \in 0..MaxError : LMStart(err)
  \/ \E err \in 0..MaxError, small \in BOOLEAN : LMAccept(err, small)
  \/ \E err \in 0..MaxError : LMReject(err)

\* optimize() runs to completion: the loop is not suspended between steps
SpecLM == InitLM /\ [][NextLM]_vars /\ WF_vars(NextLM)

\* ------------------------------------------------------------------------
\* Properties

\* the call threw and returned nothing
Failed == ret.thrown # "" /\ ret.kind = "none"

\* C1: Vee(Hat(v)) returns exactly v, for every tangent vector v.
C1_VeeOfHat ==
  op = "Vee" => ret.thrown = "" /\ ret.kind = "Vector6" /\ ret.v = RVec(xi, 1)

C1_Witness == op = "Vee" /\ prev = "Hat" /\ ret.v = RVec(xi, 1) /\ Norm1(xi) > 1

\* C2: Logmap fails for every input, and Expmap, Logmap, Retract and Local fail
\* whenever a Jacobian is requested; a failing call returns no value.
C2_UnimplementedFails ==
  /\ op = "Logmap" => Failed
  /\ op \in {"Expmap", "Logmap", "Retract", "Local"} /\ wantH => Failed

C2_Witness == op = "Logmap" /\ ~wantH /\ prev = "Retract" /\ Failed

\* C3: when Expmap returns, the branch and the element are those of the case
\* table read at the magnitudes p >= q >= 0 of the two conjugate pairs,
\* whatever order std::sort left and whatever signs a and b have.
C3_CaseByEigenPairs ==
  op = "Expmap" /\ ret.thrown = "" =>
    LET pq == EigenMagnitudes(Hat(xi))
    IN  /\ branch = Branch(pq[1], pq[2])
        /\ ret.M = Cubic(Coefficients(pq[1], pq[2]), Hat(xi))

\* C4 as stated: Expmap fails whenever some eigenvalue has a non-zero real part
\* or the imaginary parts are not paired as e[1] = -e[0], e[3] = -e[2].
C4_FailsOnAnyRealPart ==
  op = "Expmap" /\ ~wantH
  /\ (\/ \E k \in Idx4 : e[k].re # 0
      \/ e[1].im # -e[0].im
      \/ e[3].im # -e[2].im)
  => Failed

\* C4 amended: Expmap fails whenever some eigenvalue's real part exceeds the
\* isZero precision in magnitude, or the imaginary parts are not paired.
C4_FailsOnWrongEigenvalues ==
  op = "Expmap" /\ ~wantH
  /\ (\/ \E k \in Idx4 : e[k].re > DummyPrecision \/ e[k].re < -DummyPrecision
      \/ e[1].im # -e[0].im
      \/ e[3].im # -e[2].im)
  => Failed /\ ret.thrown = "SO4::Expmap: wrong eigenvalues."

C4_Witness ==
  /\ op = "Expmap" /\ ~wantH /\ Failed
  /\ \E k \in Idx4 : e[k].re > DummyPrecision
  /\ e[1].im = -e[0].im /\ e[3].im = -e[2].im

\* C5: Local(Retract(v)) = v when neither call is asked for a Jacobian.
C5_LocalOfRetract ==
  op = "Local" /\ prev = "Retract" /\ ~wantH =>
    ret.thrown = "" /\ ret.kind = "Vector6" /\ ret.v = RVec(xi, 1)

C5_Witness ==
  op = "Local" /\ prev = "Retract" /\ ~wantH /\ ret.v = RVec(xi, 1) /\ Norm1(xi) > 1

\* C6: every element Expmap returns is orthogonal.
C6_ExpmapOrthogonal == op = "Expmap" /\ ret.thrown = "" => Orthogonal(ret.M)

\* C10: when Expmap passes the eigenvalue check, no divisor of the branch it
\* takes is zero.
C10_NoZeroDivisor ==
  op = "Expmap" /\ ret.thrown = "" =>
    LET a == e[0].im
        b == e[2].im
    IN  /\ branch \in {"a_only", "equal"} => a # 0
        /\ branch = "general" =>
             a * b * (b * b - a * a) # 0 /\ b * b - a * a # 0

\* The defect behind C3, C6 and C10 is confined to a = -b # 0: in every other
\* call that returns, the case is the table's, the divisors are non-zero and
\* the element is orthogonal.
ExpmapSoundUnlessOppositeSigns ==
  op = "Expmap" /\ ret.thrown = "" /\ ~(e[0].im = -e[2].im /\ e[0].im # 0) =>
    LET pq == EigenMagnitudes(Hat(xi))
    IN  /\ branch = Branch(pq[1], pq[2])
        /\ ret.M = Cubic(Coefficients(pq[1], pq[2]), Hat(xi))
        /\ \A k \in Idx4 : coef[k].d # 0
        /\ Orthogonal(ret.M)

\* the value accessor name returns on element Qm when the Jacobian request is h
ValueOf(name, Qm, h) ==
  CASE name = "vec" -> vec(Qm, h, NoJacobian).value
    [] name = "topLeft" -> topLeft(Qm, h, NoJacobian).value
    [] name = "stiefel" -> stiefel(Qm, h, NoJacobian).value

\* C7: vec, topLeft and stiefel leave the element alone, leave the Jacobian
\* buffer alone unless a Jacobian is requested, and return the value they
\* return under the opposite request.
C7_AccessorsReadOnly ==
  [][op' \in {"vec", "topLeft", "stiefel"} =>
       /\ Q' = Q
       /\ ~wantH' => Hbuf' = Hbuf
       /\ out' = ValueOf(op', Q, ~wantH')]_vars

\* topLeft was called without a Jacobian on a buffer vec had filled before
C7_Witness ==
  op = "topLeft" /\ ~wantH /\ Hbuf.rows = 16 /\ out.kind = "Matrix3" /\ Q # RI_4x4

\* H * x for a matrix H with six columns
MatVec6(H, x) ==
  [r \in DOMAIN H |->
     H[r][0] * x[0] + H[r][1] * x[1] + H[r][2] * x[2]
     + H[r][3] * x[3] + H[r][4] * x[4] + H[r][5] * x[5]]

\* column-major vectorization of the first n rows and three columns of A
VecOfSlice(n, A) == [r \in 0..(3 * n - 1) |-> A[r % n][r \div n]]

\* C9: the Jacobian topLeft (9x6) or stiefel (12x6) writes maps every xi to the
\* vectorized slice of Q * Hat(xi).
C9_SliceJacobians ==
  /\ op = "topLeft" /\ wantH =>
       /\ Hbuf.rows = 9 /\ Hbuf.den = Q.den
       /\ \A x \in Perturbations :
            MatVec6(Hbuf.num, x) = VecOfSlice(3, MatMul(Q.num, Hat(x)))
  /\ op = "stiefel" /\ wantH =>
       /\ Hbuf.rows = 12 /\ Hbuf.den = Q.den
       /\ \A x \in Perturbations :
            MatVec6(Hbuf.num, x) = VecOfSlice(4, MatMul(Q.num, Hat(x)))

C9_Witness == op = "stiefel" /\ wantH /\ Hbuf.rows = 12 /\ Q.den > 1

\* C8: every run of the loop reaches a terminal state, and every step taken
\* while iterating moves lambda or the iteration counter.
C8_LoopTerminates ==
  /\ <>(lmState \in Terminal)
  /\ [][lmState = "ITERATING" =>
          lambdaExp' # lambdaExp \/ iterations' # iterations]_vars

C8_Witness == lmState = "STOPPED_NO_PROGRESS" /\ iterations > 0 /\ retries = MaxRetries

=============================================================================
